---- MODULE Spec2Model ----
(***************************************************************************)
(* Model of lightctl.c: the LED fade utility built on the ws2811 driver.   *)
(*                                                                         *)
(* The C code computes with IEEE-754 binary32 (float) values and packs     *)
(* four 8-bit channels into a uint32_t.  Both are modelled by what they    *)
(* do: floats are sign/mantissa/exponent records with round-to-nearest-    *)
(* even arithmetic, a uint32_t is the tuple of its four bytes (most        *)
(* significant first), so that shifts and additions wrap modulo 2^32.      *)
(***************************************************************************)
EXTENDS Integers, Sequences, FiniteSets, TLC

(***************************************************************************)
(* binary32 arithmetic.  A finite nonzero value is (-1)^s * m * 2^e with   *)
(* 2^23 <= m < 2^24.  The exponent range is not bounded: the values the    *)
(* program computes from the bounded inputs below never overflow or        *)
(* become subnormal.                                                       *)
(***************************************************************************)
FNum(s, m, e) == [k |-> "num", s |-> s, m |-> m, e |-> e]
FZero(s) == FNum(s, 0, 0)
FNaN == [k |-> "nan", s |-> 0, m |-> 0, e |-> 0]
FInf(s) == [k |-> "inf", s |-> s, m |-> 0, e |-> 0]

\* number of significant bits of n < 2^31
RECURSIVE BitLen8(_)
BitLen8(n) == IF n = 0 THEN 0 ELSE 1 + BitLen8(n \div 2)
BitLen(n) ==
    IF n >= 2^16
    THEN (IF n >= 2^24 THEN 24 + BitLen8(n \div 2^24) ELSE 16 + BitLen8(n \div 2^16))
    ELSE (IF n >= 2^8 THEN 8 + BitLen8(n \div 2^8) ELSE BitLen8(n))

\* Round the magnitude M * 2^E (plus a nonzero fraction below M's last bit
\* when sticky) to 24 significant bits, ties to even.
FRound(s, M, E, sticky) ==
    IF M = 0 THEN FZero(s)
    ELSE LET n == BitLen(M) IN
         IF n <= 24 THEN FNum(s, M * 2^(24 - n), E - (24 - n))
         ELSE LET k == n - 24
                  q == M \div 2^k
                  r == M % 2^k
                  half == 2^(k - 1)
                  up == r > half \/ (r = half /\ (sticky \/ q % 2 = 1))
                  q1 == IF up THEN q + 1 ELSE q
              IN IF q1 = 2^24 THEN FNum(s, 2^23, E + k + 1)
                 ELSE FNum(s, q1, E + k)

\* (float)n for an integer n
FromInt(n) == IF n < 0 THEN FRound(1, 0 - n, 0, FALSE) ELSE FRound(0, n, 0, FALSE)

FOne == FromInt(1)

FIsZero(a) == a.k = "num" /\ a.m = 0

MagLt(a, b) ==
    IF a.m = 0 THEN b.m # 0
    ELSE IF b.m = 0 THEN FALSE
    ELSE a.e < b.e \/ (a.e = b.e /\ a.m < b.m)

\* a < b on floats (false when either is NaN)
FLt(a, b) ==
    IF a.k = "nan" \/ b.k = "nan" THEN FALSE
    ELSE IF a.k = "inf" THEN a.s = 1 /\ ~(b.k = "inf" /\ b.s = 1)
    ELSE IF b.k = "inf" THEN b.s = 0
    ELSE IF a.m = 0 /\ b.m = 0 THEN FALSE
    ELSE IF a.s # b.s THEN a.s = 1
    ELSE IF a.s = 0 THEN MagLt(a, b) ELSE MagLt(b, a)

\* a >= b on floats (false when either is NaN)
FGe(a, b) == a.k # "nan" /\ b.k # "nan" /\ ~FLt(a, b)

XorSign(a, b) == (a.s + b.s) % 2

\* a * b
FMul(a, b) ==
    IF a.k = "nan" \/ b.k = "nan" THEN FNaN
    ELSE IF a.k = "inf" \/ b.k = "inf"
         THEN IF FIsZero(a) \/ FIsZero(b) THEN FNaN ELSE FInf(XorSign(a, b))
    ELSE IF a.m = 0 \/ b.m = 0 THEN FZero(XorSign(a, b))
    ELSE LET a1 == a.m \div 2^12
             a0 == a.m % 2^12
             b1 == b.m \div 2^12
             b0 == b.m % 2^12
             mid == a1 * b0 + a0 * b1
             L == (mid % 2^12) * 2^12 + a0 * b0
             H == a1 * b1 + mid \div 2^12 + L \div 2^24
             L24 == L % 2^24
         IN FRound(XorSign(a, b), H * 2^6 + L24 \div 2^18,
                   a.e + b.e + 18, L24 % 2^18 # 0)

\* quotient and remainder of (r * 2^n) / d, one bit at a time
RECURSIVE LongDiv(_, _, _, _)
LongDiv(q, r, d, n) ==
    IF n = 0 THEN <<q, r>>
    ELSE LET r2 == 2 * r IN
         IF r2 >= d THEN LongDiv(2 * q + 1, r2 - d, d, n - 1)
         ELSE LongDiv(2 * q, r2, d, n - 1)

\* a / b
FDiv(a, b) ==
    IF a.k = "nan" \/ b.k = "nan" THEN FNaN
    ELSE IF a.k = "inf"
         THEN IF b.k = "inf" THEN FNaN ELSE FInf(XorSign(a, b))
    ELSE IF b.k = "inf" THEN FZero(XorSign(a, b))
    ELSE IF b.m = 0 THEN IF a.m = 0 THEN FNaN ELSE FInf(XorSign(a, b))
    ELSE IF a.m = 0 THEN FZero(XorSign(a, b))
    ELSE LET qr == LongDiv(a.m \div b.m, a.m % b.m, b.m, 26)
         IN FRound(XorSign(a, b), qr[1], a.e - b.e - 26, qr[2] # 0)

\* a + b for finite a, b
FAddNum(a, b) ==
    IF a.m = 0 THEN (IF b.m = 0 /\ a.s # b.s THEN FZero(0) ELSE b)
    ELSE IF b.m = 0 THEN a
    ELSE LET swap == MagLt(a, b)
             x == IF swap THEN b ELSE a
             y == IF swap THEN a ELSE b
             d == x.e - y.e
             X == x.m * 2^6
             Y6 == y.m * 2^6
             Y == IF d >= 30 THEN 0 ELSE Y6 \div 2^d
             st == IF d >= 30 THEN TRUE ELSE Y6 % 2^d # 0
         IN IF x.s = y.s THEN FRound(x.s, X + Y, x.e - 6, st)
            ELSE IF st THEN FRound(x.s, X - Y - 1, x.e - 6, TRUE)
            ELSE IF X = Y THEN FZero(0)
            ELSE FRound(x.s, X - Y, x.e - 6, FALSE)

FAdd(a, b) ==
    IF a.k = "nan" \/ b.k = "nan" THEN FNaN
    ELSE IF a.k = "inf" THEN (IF b.k = "inf" /\ b.s # a.s THEN FNaN ELSE a)
    ELSE IF b.k = "inf" THEN b
    ELSE FAddNum(a, b)

FNeg(a) == [a EXCEPT !.s = 1 - a.s]

FSub(a, b) == FAdd(a, FNeg(b))

(***************************************************************************)
(* uint32_t values as byte tuples <<b3, b2, b1, b0>>, b3 most significant. *)
(* A packed colour 0xWWRRGGBB is the tuple <<W, R, G, B>>.                 *)
(***************************************************************************)
Channels == 1..4

U32(v) == <<v \div 2^24, (v \div 2^16) % 256, (v \div 256) % 256, v % 256>>

\* 2^32 - n as a uint32_t, for 1 <= n <= 2^24
U32Neg(n) ==
    LET low == 2^24 - n
    IN <<255, low \div 2^16, (low \div 256) % 256, low % 256>>

\* x << (8 * j), modulo 2^32
U32Shl(x, j) == [i \in Channels |-> IF i + j <= 4 THEN x[i + j] ELSE 0]

\* x + y, modulo 2^32
U32Add(x, y) ==
    LET s4 == x[4] + y[4]
        s3 == x[3] + y[3] + s4 \div 256
        s2 == x[2] + y[2] + s3 \div 256
        s1 == x[1] + y[1] + s2 \div 256
    IN <<s1 % 256, s2 % 256, s3 % 256, s4 % 256>>

\* The integer part of the magnitude of a finite float below 2^31
FFloorMag(x) ==
    IF x.m = 0 THEN 0
    ELSE IF x.e >= 0 THEN x.m * 2^(x.e)
    ELSE IF 0 - x.e >= 24 THEN 0
    ELSE x.m \div 2^(0 - x.e)

\* The builds differ in what (uint32_t)f yields when the truncated value is
\* not representable (undefined behaviour): the ARM build saturates, the
\* x86-64 build wraps modulo 2^32.
Builds == {"saturate", "wrap"}

\* (uint32_t)x for a finite float x: truncation toward zero
FToU32(x, mode) ==
    LET n == FFloorMag(x) IN
    IF n = 0 THEN U32(0)
    ELSE IF x.s = 0 THEN U32(n)
    ELSE IF mode = "saturate" THEN U32(0)
    ELSE U32Neg(n)

\* ((uint32_t)w << 24) + ((uint32_t)r << 16) + ((uint32_t)g << 8) + (uint32_t)b
PackChannels(w, r, g, b, mode) ==
    U32Add(U32Add(U32Shl(FToU32(w, mode), 3), U32Shl(FToU32(r, mode), 2)),
           U32Add(U32Shl(FToU32(g, mode), 1), U32Shl(FToU32(b, mode), 0)))

(***************************************************************************)
(* Colour model                                                            *)
(***************************************************************************)
w_brightness == 5
r_brightness == 2
g_brightness == 3
b_brightness == 2

\* the uint32_t weighted sum of get_brightness, before the division
WeightedSum(color) ==
    color[1] * w_brightness + color[2] * r_brightness
    + color[3] * g_brightness + color[4] * b_brightness

get_brightness(color) ==
    FDiv(FromInt(WeightedSum(color)),
         FromInt(w_brightness + r_brightness + g_brightness + b_brightness))

\* one channel of limit_brightness with the two brightnesses exchanged
LimitChannel_swapped(c, ref_brightness, brightness) ==
    FDiv(FMul(FromInt(c), brightness), ref_brightness)

\* one channel of limit_brightness: (float)c * ref_brightness / brightness
LimitChannel(c, ref_brightness, brightness) ==
    FDiv(FMul(FromInt(c), ref_brightness), brightness)

\* limit_brightness scaling whatever the two brightnesses are
LimitWith_always(color, reference_color, mode) ==
    LET brightness == get_brightness(color)
        ref_brightness == get_brightness(reference_color)
    IN PackChannels(LimitChannel(color[1], ref_brightness, brightness),
                    LimitChannel(color[2], ref_brightness, brightness),
                    LimitChannel(color[3], ref_brightness, brightness),
                    LimitChannel(color[4], ref_brightness, brightness), mode)

\* limit_brightness with a guard for a reference of brightness 0, which the
\* source does not have
LimitWith_guard(color, reference_color, mode) ==
    LET brightness == get_brightness(color)
        ref_brightness == get_brightness(reference_color)
    IN IF FLt(ref_brightness, brightness) /\ ~FIsZero(ref_brightness)
       THEN PackChannels(LimitChannel(color[1], ref_brightness, brightness),
                         LimitChannel(color[2], ref_brightness, brightness),
                         LimitChannel(color[3], ref_brightness, brightness),
                         LimitChannel(color[4], ref_brightness, brightness), mode)
       ELSE color

\* limit_brightness
LimitWith(color, reference_color, mode) ==
    LET brightness == get_brightness(color)
        ref_brightness == get_brightness(reference_color)
    IN IF FLt(ref_brightness, brightness)
       THEN PackChannels(LimitChannel(color[1], ref_brightness, brightness),
                         LimitChannel(color[2], ref_brightness, brightness),
                         LimitChannel(color[3], ref_brightness, brightness),
                         LimitChannel(color[4], ref_brightness, brightness), mode)
       ELSE color

\* blend_colors with the two weights exchanged
BlendChannel_swapped(c1, c2, alpha, beta) ==
    FAdd(FMul(alpha, FromInt(c1)), FMul(beta, FromInt(c2)))

\* one channel of blend_colors: (1 - alpha) * (float)c1 + alpha * (float)c2,
\* with beta the value of 1 - alpha
BlendChannel(c1, c2, alpha, beta) ==
    FAdd(FMul(beta, FromInt(c1)), FMul(alpha, FromInt(c2)))

\* blend_colors with alpha read as a percentage
BlendFloats_percent(color1, color2, alpha) ==
    LET a == FDiv(alpha, FromInt(100))
        beta == FSub(FOne, a)
    IN [i \in Channels |-> BlendChannel(color1[i], color2[i], a, beta)]

\* new_w, new_r, new_g, new_b of blend_colors
BlendFloats(color1, color2, alpha) ==
    LET beta == FSub(FOne, alpha)
    IN [i \in Channels |-> BlendChannel(color1[i], color2[i], alpha, beta)]

BlendWith(color1, color2, alpha, mode) ==
    LET f == BlendFloats(color1, color2, alpha)
    IN PackChannels(f[1], f[2], f[3], f[4], mode)


(***************************************************************************)
(* Time                                                                    *)
(***************************************************************************)
\* C integer division: truncation toward zero
TruncDiv(a, b) == IF a >= 0 THEN a \div b ELSE 0 - ((0 - a) \div b)

\* Seconds between two timespecs.  The C expression adds the float second
\* difference and the millisecond difference divided by the double 1e3 in
\* double precision and narrows the sum to float; for whole-millisecond
\* totals below 2^24 that is the float nearest to total / 1000.
get_timespan(time1, time0) ==
    FDiv(FromInt(1000 * (time1.tv_sec - time0.tv_sec)
                 + TruncDiv(time1.tv_nsec - time0.tv_nsec, 1000000)),
         FromInt(1000))


(***************************************************************************)
(* Bounds of the model                                                     *)
(***************************************************************************)
\* LEDs per channel (167 and 109 in the strip configuration)
Count0 == 2
Count1 == 1
\* command-line words after the program name
MaxArgs == 4
\* frames computed, and clock ticks one sleep may take
MaxFrames == 3
MaxLag == 1
\* failing system and driver calls
MaxFaults == 1

TickMs == 10

Chans == {0, 1}
count(ch) == IF ch = 0 THEN Count0 ELSE Count1

Zero == <<0, 0, 0, 0>>
White == <<255, 255, 255, 255>>
Mid == <<160, 128, 32, 16>>
Dim == <<3, 40, 0, 7>>

Min(a, b) == IF a < b THEN a ELSE b

(***************************************************************************)
(* State store                                                             *)
(***************************************************************************)
NoFile == [exists |-> FALSE, data |-> <<>>]
FileOf(colors) == [exists |-> TRUE, data |-> colors]

\* How one store_leds call goes: whether fopen succeeds, how many colours
\* fwrite reports written, whether fclose succeeds, and how many colours the
\* file holds afterwards (all that fwrite accepted unless the flush in
\* fclose failed).
StoreOk(led_count) ==
    [open |-> TRUE, n_written |-> led_count, close |-> TRUE, kept |-> led_count]
StoreFailures(led_count) ==
    {[open |-> FALSE, n_written |-> 0, close |-> TRUE, kept |-> 0]}
    \cup {[open |-> TRUE, n_written |-> n, close |-> TRUE, kept |-> n] :
             n \in 0..(led_count - 1)}
    \cup {[open |-> TRUE, n_written |-> led_count, close |-> FALSE, kept |-> n] :
             n \in 0..led_count}

\* store_leds if a failed fopen left an empty file behind
store_leds_clobber(f, colors, led_count, out) ==
    IF ~out.open THEN FileOf(<<>>)
    ELSE FileOf(SubSeq(colors, 1, out.kept))

\* fopen(filename, "w+") truncates the file; a failed fopen leaves it alone
store_leds(f, colors, led_count, out) ==
    IF ~out.open THEN f
    ELSE FileOf(SubSeq(colors, 1, out.kept))

\* load_leds with the zero fill starting one LED early
load_leds_early(f, led_count, openOk) ==
    LET n_read == IF f.exists /\ openOk THEN Min(Len(f.data), led_count) ELSE 0
    IN [i \in 1..led_count |-> IF i < n_read THEN f.data[i] ELSE Zero]

\* fread of whole colours, then "fill undefined LED states with 0"
load_leds(f, led_count, openOk) ==
    LET n_read == IF f.exists /\ openOk THEN Min(Len(f.data), led_count) ELSE 0
    IN [i \in 1..led_count |-> IF i <= n_read THEN f.data[i] ELSE Zero]

(***************************************************************************)
(* Command line.  A word of the command line is described by what the two  *)
(* sscanf conversions make of it: hex is the value "%x" reads (<<>> when   *)
(* it matches nothing), flt the value "%f" reads (k = "none" likewise).    *)
(***************************************************************************)
NoFloat == [k |-> "none", s |-> 0, m |-> 0, e |-> 0]
Word(t, hex, flt) == [t |-> t, hex |-> hex, flt |-> flt]

Words ==
    { Word("--help", <<>>, NoFloat),
      Word("--not-brighter", <<>>, NoFloat),
      Word("--time", <<>>, NoFloat),
      Word("ffffffff", White, NoFloat),
      Word(".015", <<>>, FDiv(FromInt(15), FromInt(1000))),
      Word("-.015", <<>>, FDiv(FromInt(-15), FromInt(1000))),
      Word("--bogus", <<>>, NoFloat) }

InitParams ==
    [color |-> Zero, color_specified |-> FALSE, duration |-> FZero(0),
     limit_brightness |-> FALSE]

\* One iteration of the argument loop of parse_cmdline on the word arg, with
\* nxt the word after it (read only after --time) and left the number of
\* words from arg on.  Yields the return code when the loop returns, the
\* parameters and the number of words consumed.
ParseStep(p, arg, nxt, left) ==
    IF arg.t = "--help" THEN [rc |-> -1, params |-> p, used |-> 1]
    ELSE IF arg.t = "--not-brighter"
         THEN [rc |-> 0, params |-> [p EXCEPT !.limit_brightness = TRUE], used |-> 1]
    ELSE IF arg.t = "--time"
         THEN IF left = 1 THEN [rc |-> -1, params |-> p, used |-> 1]
              ELSE IF nxt.flt.k = "none" THEN [rc |-> -1, params |-> p, used |-> 2]
              ELSE [rc |-> 0, params |-> [p EXCEPT !.duration = nxt.flt], used |-> 2]
    ELSE IF ~p.color_specified
         THEN IF arg.hex = <<>> THEN [rc |-> -1, params |-> p, used |-> 1]
              ELSE [rc |-> 0,
                    params |-> [p EXCEPT !.color = arg.hex, !.color_specified = TRUE],
                    used |-> 1]
    ELSE [rc |-> -1, params |-> p, used |-> 1]


(***************************************************************************)
(* State                                                                   *)
(***************************************************************************)
VARIABLES
    build,        \* which outcome the build gives to out-of-range
                  \* conversions, "any" until a frame first depends on it
    pc,           \* position of main
    argc,         \* command-line words not yet consumed
    params,       \* struct params
    handlers,     \* SIGINT/SIGTERM handlers installed and process alive
    running,      \* the cancellation flag
    file,         \* /tmp/leds0 and /tmp/leds1
    start,        \* start0, start1
    end,          \* end0, end1
    leds,         \* ledstrip.channel[ch].leds, the render buffer
    now,          \* the monotonic clock
    frames,       \* frames computed so far
    starttime,
    currenttime,
    progress,
    ret,
    exitCode,     \* the value main returned
    shown,        \* colours of the last frame the driver rendered successfully
    good,         \* each file as the last successful store_leds (or the
                  \* environment, before any) left it
    faults,       \* failed calls injected so far
    log           \* what has happened so far

vars == <<build, pc, argc, params, handlers, running, file, start, end,
          leds, now, frames, starttime, currenttime, progress, ret, exitCode,
          shown, good, faults, log>>

\* The log: which calls failed (usage, setuid, clock, init, render, save,
\* partial: a save that failed after opening its file), the status of the
\* failing driver call, whether the state was loaded (and which files could
\* be opened), the driver initialised, how many render calls, rendered
\* frames, store_leds calls, successful saves and ws2811_fini calls there
\* were, whether a frame with progress 1 was rendered, how the latest save
\* went, and where the signal found the program (sig), with the frames
\* rendered and the colours shown at that moment and whether the fade was
\* under way (a frame rendered, none with progress 1 yet).
NoLog ==
    [usage |-> FALSE, setuid |-> FALSE, clock |-> FALSE, init |-> FALSE,
     render |-> FALSE, save |-> FALSE, partial |-> FALSE, status |-> 0,
     loaded |-> FALSE, opened |-> {}, inited |-> FALSE,
     renders |-> 0, frames |-> 0, stores |-> 0, saves |-> 0, finis |-> 0,
     full |-> FALSE, lastSave |-> "none",
     sig |-> "none", sigFrames |-> 0, sigShown |-> <<>>, sigMid |-> FALSE]

\* the clock reading when the program is invoked
Boot == [tv_sec |-> 7, tv_nsec |-> 995400000]

\* the clock t, ms milliseconds later
Later(t, ms) ==
    LET n == t.tv_nsec + ms * 1000000
    IN [tv_sec |-> t.tv_sec + n \div 1000000000, tv_nsec |-> n % 1000000000]

\* contents the state files may have when the program is invoked: absent,
\* or one colour short of or one colour beyond the LED count
OldColors(n, k) == [i \in 1..n |-> IF (i + k) % 2 = 0 THEN Dim ELSE Mid]
InitFiles ==
    {[ch \in Chans |-> NoFile]} \cup
    {[ch \in Chans |-> FileOf(OldColors(count(ch) + k, k))] : k \in {-1, 1}}

\* status codes of a failing driver call (negative ws2811_return_t values)
DriverErrors == {0 - 2, 0 - 10}

NoColors == [ch \in Chans |-> <<>>]

Init ==
    /\ build = "any"
    /\ pc = "parse"
    /\ argc \in 0..MaxArgs
    /\ params = InitParams
    /\ handlers = FALSE
    /\ running = 1
    /\ file \in InitFiles
    /\ start = NoColors
    /\ end = NoColors
    /\ leds = NoColors
    /\ now = Boot
    /\ frames = 0
    /\ starttime = now
    /\ currenttime = now
    /\ progress = FZero(0)
    /\ ret = 0
    /\ exitCode = 0
    /\ shown = NoColors
    /\ good = file
    /\ faults = 0
    /\ log = NoLog

\* return code: the process is gone
Exit(code) ==
    /\ pc' = "exited"
    /\ exitCode' = code
    /\ handlers' = FALSE

\* after the loop: ws2811_fini(&ledstrip); return ret, with l the log of the
\* step that left the loop
Finish(code, l) ==
    /\ Exit(code)
    /\ log' = [l EXCEPT !.finis = @ + 1]

\* the frame sleep, usleep(1000000 / 100): at least one tick passes
Sleep ==
    \E k \in 1..MaxLag : now' = Later(now, k * TickMs)


(***************************************************************************)
(* main, step by step                                                      *)
(***************************************************************************)
\* one iteration of the argument loop; on an error main prints the usage and
\* returns -1
ParseArg ==
    /\ pc = "parse"
    /\ argc > 0
    /\ \E arg \in Words, nxt \in Words :
          LET r == ParseStep(params, arg, nxt, argc) IN
          /\ (arg.t # "--time" \/ argc = 1) => nxt = arg
          /\ params' = r.params
          /\ argc' = argc - r.used
          /\ IF r.rc # 0
             THEN /\ Exit(-1)
                  /\ log' = [log EXCEPT !.usage = TRUE]
             ELSE /\ UNCHANGED <<pc, exitCode, handlers, log>>
    /\ UNCHANGED <<build, running, file, start, end, leds, now,
                   frames, starttime, currenttime, progress, ret, shown, good,
                   faults>>

\* parse_cmdline returned 0: setup_handlers()
SetupHandlers ==
    /\ pc = "parse"
    /\ argc = 0
    /\ handlers' = TRUE
    /\ pc' = "setuid"
    /\ UNCHANGED <<build, argc, params, running, file, start, end, leds,
                   now, frames, starttime, currenttime, progress, ret, exitCode,
                   shown, good, faults, log>>

\* setuid(0)
Setuid ==
    /\ pc = "setuid"
    /\ \/ /\ pc' = "load"
          /\ UNCHANGED <<exitCode, handlers, faults, log>>
       \/ /\ faults < MaxFaults
          /\ faults' = faults + 1
          /\ Exit(-1)
          /\ log' = [log EXCEPT !.setuid = TRUE]
    /\ UNCHANGED <<build, argc, params, running, file, start, end, leds,
                   now, frames, starttime, currenttime, progress, ret, shown,
                   good>>

\* the end colour if --not-brighter were ignored
EndColor_nolimit(p, start_color, mode) == p.color

\* the end colour of one LED (the channels limit_brightness converts are
\* never negative, so they come out the same in every build)
EndColor(p, start_color, mode) ==
    IF p.limit_brightness THEN LimitWith(p.color, start_color, mode) ELSE p.color

\* load start state, load end state
LoadState ==
    /\ pc = "load"
    /\ \E ok \in [Chans -> BOOLEAN] :
          LET bad == Cardinality({ch \in Chans : ~ok[ch]})
              st == [ch \in Chans |-> load_leds(file[ch], count(ch), ok[ch])]
          IN /\ faults + bad <= MaxFaults
             /\ \A ch \in Chans : ~ok[ch] => file[ch].exists
             /\ faults' = faults + bad
             /\ start' = st
             /\ end' = [ch \in Chans |->
                          [i \in 1..count(ch) |-> EndColor(params, st[ch][i], "saturate")]]
             /\ log' = [log EXCEPT !.loaded = TRUE,
                                   !.opened = {ch \in Chans : file[ch].exists /\ ok[ch]}]
    /\ pc' = "clock0"
    /\ UNCHANGED <<build, argc, params, handlers, running, file, leds,
                   now, frames, starttime, currenttime, progress, ret, exitCode,
                   shown, good>>

\* clock_gettime(CLOCK_MONOTONIC, &starttime)
ClockStart ==
    /\ pc = "clock0"
    /\ \/ /\ starttime' = now
          /\ pc' = "init"
          /\ UNCHANGED <<exitCode, handlers, faults, log>>
       \/ /\ faults < MaxFaults
          /\ faults' = faults + 1
          /\ Exit(-1)
          /\ log' = [log EXCEPT !.clock = TRUE]
          /\ UNCHANGED starttime
    /\ UNCHANGED <<build, argc, params, running, file, start, end, leds,
                   now, frames, currenttime, progress, ret, shown, good>>

\* ws2811_init(&ledstrip): allocates the zeroed render buffers
DriverInit ==
    /\ pc = "init"
    /\ \/ /\ ret' = 0
          /\ leds' = [ch \in Chans |-> [i \in 1..count(ch) |-> Zero]]
          /\ pc' = "loop"
          /\ log' = [log EXCEPT !.inited = TRUE]
          /\ UNCHANGED <<exitCode, handlers, faults>>
       \/ /\ faults < MaxFaults
          /\ faults' = faults + 1
          /\ \E code \in DriverErrors :
                /\ ret' = code
                /\ Exit(code)
                /\ log' = [log EXCEPT !.init = TRUE, !.status = code]
          /\ UNCHANGED leds
    /\ UNCHANGED <<build, argc, params, running, file, start, end,
                   now, frames, starttime, currenttime, progress, shown, good>>

\* the loop if a set flag were followed by one more save of every channel
LoopCheck_finalsave ==
    /\ pc = "loop"
    /\ IF running # 0
       THEN /\ pc' = "clock"
            /\ UNCHANGED <<handlers, exitCode, log, file, good>>
       ELSE /\ Exit(ret)
            /\ file' = [ch \in Chans |-> FileOf(leds[ch])]
            /\ good' = file'
            /\ log' = [log EXCEPT !.stores = @ + 2, !.saves = @ + 2,
                                  !.finis = @ + 1]
    /\ UNCHANGED <<build, argc, params, running, start, end, leds, now,
                   frames, starttime, currenttime, progress, ret, shown,
                   faults>>

\* the loop if a set flag ended it only once the fade is complete
LoopCheck_finishfade ==
    /\ pc = "loop"
    /\ IF running # 0 \/ FLt(progress, FOne)
       THEN /\ pc' = "clock"
            /\ UNCHANGED <<handlers, exitCode, log>>
       ELSE Finish(ret, log)
    /\ UNCHANGED <<build, argc, params, running, file, start, end, leds, now,
                   frames, starttime, currenttime, progress, ret, shown, good,
                   faults>>

\* the loop if it did not test the flag: while (1)
LoopCheck_ignore ==
    /\ pc = "loop"
    /\ pc' = "clock"
    /\ UNCHANGED <<build, argc, params, handlers, running, file, start, end,
                   leds, now, frames, starttime, currenttime, progress, ret,
                   exitCode, shown, good, faults, log>>

\* while (running)
LoopCheck ==
    /\ pc = "loop"
    /\ IF running # 0
       THEN /\ pc' = "clock"
            /\ UNCHANGED <<handlers, exitCode, log>>
       ELSE Finish(ret, log)
    /\ UNCHANGED <<build, argc, params, running, file, start, end, leds, now,
                   frames, starttime, currenttime, progress, ret, shown, good,
                   faults>>

\* progress clamped with progress >= 1, which lets a NaN through
Progress_ge(time1, time0, duration) ==
    LET p == FDiv(get_timespan(time1, time0), duration)
    IN IF FGe(p, FOne) THEN FOne ELSE p

\* progress of the frame: elapsed / duration, set to 1 unless below 1
Progress(time1, time0, duration) ==
    LET p == FDiv(get_timespan(time1, time0), duration)
    IN IF ~FLt(p, FOne) THEN FOne ELSE p

\* the (start, end) colour pairs of the LEDs
ColorPairs(st, en) ==
    UNION {{<<st[ch][i], en[ch][i]>> : i \in 1..count(ch)} : ch \in Chans}

\* blend_colors for every pair of colours and every build (LEDs with the
\* same colours get the same result, so it is computed once per pair)
BlendTable(pairs, alpha) ==
    [p \in pairs |->
        [m \in Builds |-> BlendWith(p[1], p[2], alpha, m)]]

\* the render buffer of the frame: every LED of every channel blended
RenderBuffer(st, en, table, mode) ==
    [ch \in Chans |->
        [i \in 1..count(ch) |-> table[<<st[ch][i], en[ch][i]>>][mode]]]

\* clock_gettime(CLOCK_MONOTONIC, &currenttime), progress, blend into leds.
\* An out-of-range conversion comes out as the build makes it; the build is
\* settled by the first frame that depends on it.
Frame ==
    /\ pc = "clock"
    /\ frames < MaxFrames
    /\ frames' = frames + 1
    /\ \/ /\ currenttime' = now
          /\ progress' = Progress(now, starttime, params.duration)
          /\ \E table \in {BlendTable(ColorPairs(start, end), progress')} :
             \E mode \in (IF build = "any" THEN Builds ELSE {build}) :
                /\ leds' = RenderBuffer(start, end, table, mode)
                /\ build' = IF \A p \in DOMAIN table, m \in Builds :
                                   table[p][m] = table[p][mode]
                             THEN build ELSE mode
          /\ pc' = "render"
          /\ UNCHANGED <<handlers, exitCode, faults, log>>
       \/ /\ faults < MaxFaults
          /\ faults' = faults + 1
          /\ Finish(ret, [log EXCEPT !.clock = TRUE])
          /\ UNCHANGED <<build, currenttime, progress, leds>>
    /\ UNCHANGED <<argc, params, running, file, start, end, now, starttime,
                   ret, shown, good>>

\* ws2811_render if a failure did not leave the loop before the saves
Render_nobreak ==
    /\ pc = "render"
    /\ \/ /\ ret' = 0
          /\ shown' = leds
          /\ log' = [log EXCEPT !.renders = @ + 1, !.frames = @ + 1,
                                !.full = @ \/ progress = FOne]
          /\ UNCHANGED faults
       \/ /\ faults < MaxFaults
          /\ faults' = faults + 1
          /\ \E code \in DriverErrors :
                /\ ret' = code
                /\ log' = [log EXCEPT !.renders = @ + 1, !.render = TRUE,
                                      !.status = code]
          /\ UNCHANGED shown
    /\ pc' = "store0"
    /\ UNCHANGED <<build, argc, params, handlers, running, file, start, end,
                   leds, now, frames, starttime, currenttime, progress,
                   exitCode, good>>

\* ws2811_render if a failure went on to the next iteration (continue
\* instead of break)
Render_continue ==
    /\ pc = "render"
    /\ \/ /\ ret' = 0
          /\ shown' = leds
          /\ pc' = "store0"
          /\ log' = [log EXCEPT !.renders = @ + 1, !.frames = @ + 1,
                                !.full = @ \/ progress = FOne]
          /\ UNCHANGED faults
       \/ /\ faults < MaxFaults
          /\ faults' = faults + 1
          /\ \E code \in DriverErrors :
                /\ ret' = code
                /\ log' = [log EXCEPT !.renders = @ + 1, !.render = TRUE,
                                      !.status = code]
          /\ pc' = "loop"
          /\ UNCHANGED shown
    /\ UNCHANGED <<build, argc, params, handlers, running, file, start, end,
                   leds, now, frames, starttime, currenttime, progress,
                   exitCode, good>>

\* ws2811_render(&ledstrip)
Render ==
    /\ pc = "render"
    /\ \/ /\ ret' = 0
          /\ shown' = leds
          /\ pc' = "store0"
          /\ log' = [log EXCEPT !.renders = @ + 1, !.frames = @ + 1,
                                !.full = @ \/ progress = FOne]
          /\ UNCHANGED <<handlers, exitCode, faults>>
       \/ /\ faults < MaxFaults
          /\ faults' = faults + 1
          /\ \E code \in DriverErrors :
                /\ ret' = code
                /\ Finish(code, [log EXCEPT !.renders = @ + 1, !.render = TRUE,
                                            !.status = code])
          /\ UNCHANGED shown
    /\ UNCHANGED <<build, argc, params, running, file, start, end, leds, now,
                   frames, starttime, currenttime, progress, good>>

\* the ways a store_leds call of led_count colours can go
StoreOutcomes(led_count) ==
    {StoreOk(led_count)} \cup
    (IF faults < MaxFaults THEN StoreFailures(led_count) ELSE {})

\* store_leds reports a failure on stderr
StoreFailed(out, led_count) ==
    ~out.open \/ out.n_written < led_count \/ ~out.close

\* the log after a store_leds call
StoreLog(out, led_count) ==
    IF StoreFailed(out, led_count)
    THEN [log EXCEPT !.stores = @ + 1, !.save = TRUE,
                     !.partial = @ \/ out.open,
                     !.lastSave = IF out.open THEN "partial" ELSE "open"]
    ELSE [log EXCEPT !.stores = @ + 1, !.saves = @ + 1, !.lastSave = "ok"]

\* store_leds(filename of ch, ledstrip.channel[ch].leds, count) going as out
Store(ch, out) ==
    /\ file' = [file EXCEPT ![ch] = store_leds(@, leds[ch], count(ch), out)]
    /\ good' = IF StoreFailed(out, count(ch)) THEN good
               ELSE [good EXCEPT ![ch] = file'[ch]]
    /\ faults' = IF StoreFailed(out, count(ch)) THEN faults + 1 ELSE faults

\* store_leds("/tmp/leds0", ...)
Store0 ==
    /\ pc = "store0"
    /\ \E out \in StoreOutcomes(count(0)) :
          /\ Store(0, out)
          /\ log' = StoreLog(out, count(0))
    /\ pc' = "store1"
    /\ UNCHANGED <<build, argc, params, handlers, running, start, end, leds,
                   now, frames, starttime, currenttime, progress, ret,
                   exitCode, shown>>

\* store_leds("/tmp/leds1", ...); if (progress >= 1) break; usleep
Store1 ==
    /\ pc = "store1"
    /\ \E out \in StoreOutcomes(count(1)) :
          /\ Store(1, out)
          /\ IF FGe(progress, FOne)
             THEN /\ Finish(ret, StoreLog(out, count(1)))
                  /\ UNCHANGED now
             ELSE /\ Sleep
                  /\ pc' = "loop"
                  /\ log' = StoreLog(out, count(1))
                  /\ UNCHANGED <<handlers, exitCode>>
    /\ UNCHANGED <<build, argc, params, running, start, end, leds, frames,
                   starttime, currenttime, progress, ret, shown>>

\* SIGINT or SIGTERM is delivered: ctrl_c_handler
ctrl_c_handler ==
    /\ handlers
    /\ running # 0
    /\ running' = 0
    /\ log' = [log EXCEPT !.sig = pc,
                          !.sigFrames = log.frames,
                          !.sigShown = shown,
                          !.sigMid = log.frames > 0 /\ ~log.full]
    /\ UNCHANGED <<build, pc, argc, params, handlers, file, start, end,
                   leds, now, frames, starttime, currenttime, progress, ret,
                   exitCode, shown, good, faults>>

Next ==
    \/ ParseArg
    \/ SetupHandlers
    \/ Setuid
    \/ LoadState
    \/ ClockStart
    \/ DriverInit
    \/ LoopCheck
    \/ Frame
    \/ Render
    \/ Store0
    \/ Store1
    \/ ctrl_c_handler

Spec == Init /\ [][Next]_vars


(***************************************************************************)
(* The colour functions on their own: one LED of each channel is taken     *)
(* through what main does to it, the end colour (limit_brightness or the   *)
(* requested colour) and the blend of a frame, for requested colours,      *)
(* start colours and progress values drawn from small sets.                *)
(***************************************************************************)
\* colours tried: black, full white, mixed ones, single channels
LedColors ==
    {Zero, White, Mid, Dim, <<7, 0, 0, 0>>, <<0, 255, 0, 1>>, <<1, 1, 1, 1>>}

\* progress values of frames 0, 10, 20 and 30 ms into a fade of 0.03 s
LedAlphas ==
    {Progress(Later(Boot, ms), Boot, FDiv(FromInt(3), FromInt(100))) :
        ms \in {0, TickMs, 2 * TickMs, 3 * TickMs}}

LedInit ==
    /\ build = "any"
    /\ pc = "led"
    /\ argc = 0
    /\ \E color \in LedColors, limit \in BOOLEAN :
          params = [InitParams EXCEPT !.color = color,
                                      !.color_specified = TRUE,
                                      !.limit_brightness = limit]
    /\ handlers = FALSE
    /\ running = 1
    /\ file = [ch \in Chans |-> NoFile]
    /\ \E reference \in LedColors : start = [ch \in Chans |-> <<reference>>]
    /\ end = NoColors
    /\ leds = NoColors
    /\ now = Boot
    /\ frames = 0
    /\ starttime = now
    /\ currenttime = now
    /\ progress \in LedAlphas
    /\ ret = 0
    /\ exitCode = 0
    /\ shown = NoColors
    /\ good = file
    /\ faults = 0
    /\ log = NoLog

\* end[i] = params.limit_brightness ? limit_brightness(params.color, start[i])
\*                                  : params.color
LedEnd ==
    /\ pc = "led"
    /\ end' = [ch \in Chans |-> <<EndColor(params, start[ch][1], "saturate")>>]
    /\ pc' = "led_end"
    /\ UNCHANGED <<build, argc, params, handlers, running, file, start, leds,
                   now, frames, starttime, currenttime, progress, ret,
                   exitCode, shown, good, faults, log>>

\* leds[i] = blend_colors(start[i], end[i], progress)
LedBlend ==
    /\ pc = "led_end"
    /\ leds' = [ch \in Chans |->
                  <<BlendWith(start[ch][1], end[ch][1], progress, "saturate")>>]
    /\ pc' = "led_blend"
    /\ UNCHANGED <<build, argc, params, handlers, running, file, start, end,
                   now, frames, starttime, currenttime, progress, ret,
                   exitCode, shown, good, faults, log>>

LedNext ==
    \/ LedEnd
    \/ LedBlend

LedSpec == LedInit /\ [][LedNext]_vars


(***************************************************************************)
(* Properties                                                              *)
(***************************************************************************)
\* what a run started now would load as the start colours of channel ch
NextStart(ch) == load_leds(file[ch], count(ch), TRUE)

\* the end colours main computes from the start colours
EndColors ==
    [ch \in Chans |->
        [i \in 1..count(ch) |-> EndColor(params, start[ch][i], "saturate")]]

\* s is an initial part of t
IsPrefix(s, t) == Len(s) <= Len(t) /\ s = SubSeq(t, 1, Len(s))

\* the run entered the loop and no clock, render or save call failed
CleanLoop == log.inited /\ ~log.clock /\ ~log.render /\ ~log.save

\* C1: a run with duration >= 0 that is not cancelled and in which no clock,
\* render or save call fails has, when it has exited, rendered its last frame
\* with progress 1; the colours last rendered and the colours persisted are
\* the end colours of the LEDs (the requested colour, or limit_brightness of
\* it against the LED's own start colour under --not-brighter); the driver
\* was finalized once and the exit code is 0.
C1_FadeReachesEnd ==
    (/\ pc = "exited"
     /\ CleanLoop
     /\ running # 0
     /\ FGe(params.duration, FZero(0)))
    => /\ progress = FOne
       /\ log.full
       /\ end = EndColors
       /\ shown = end
       /\ \A ch \in Chans : file[ch] = FileOf(end[ch])
       /\ log.finis = 1
       /\ exitCode = 0

\* a completed fade of several frames under --not-brighter whose LEDs have
\* different end colours
C1_Witness ==
    /\ pc = "exited"
    /\ CleanLoop
    /\ running # 0
    /\ FLt(FZero(0), params.duration)
    /\ params.limit_brightness
    /\ log.frames >= 2
    /\ end[0][1] # end[0][2]
    /\ end[0][1] # params.color
    /\ shown = end

\* C2: while no save has failed, at every loop boundary after the first
\* successful render and at exit, however the run ended, each file holds
\* the colours of the most recent successfully rendered frame, and a run
\* started then loads exactly those as its start colours.
C2_PersistedIsShown ==
    (/\ log.frames > 0
     /\ ~log.save
     /\ pc \in {"loop", "clock", "render", "exited"})
    => \A ch \in Chans : /\ file[ch] = FileOf(shown[ch])
                         /\ NextStart(ch) = shown[ch]

\* a run ended by a render failure whose failed frame differs from the one
\* persisted
C2_Witness ==
    /\ pc = "exited"
    /\ log.render
    /\ log.frames > 0
    /\ ~log.save
    /\ leds # shown
    /\ \A ch \in Chans : NextStart(ch) = shown[ch]

\* C3 as stated: a signal delivered mid-fade makes the run exit 0 with the
\* files holding the colours displayed at the moment of the signal, and no
\* frame with progress 1 is rendered.
C3_AsStated ==
    (pc = "exited" /\ log.sigMid /\ CleanLoop)
    => /\ exitCode = 0
       /\ \A ch \in Chans : file[ch] = FileOf(log.sigShown[ch])
       /\ ~log.full

\* C3: a signal delivered mid-fade makes the run exit 0, the driver
\* finalized once, with the files holding the last rendered frame.  When the
\* signal arrives after the render call of an iteration, that is the frame
\* displayed at the moment of the signal and the fade is not completed; when
\* it arrives between the loop's test of the flag and the render call, that
\* one iteration still renders and saves its frame.
C3_CancelStopsAtNextTest ==
    (pc = "exited" /\ log.sigMid /\ CleanLoop)
    => /\ exitCode = 0
       /\ log.finis = 1
       /\ \A ch \in Chans : file[ch] = FileOf(shown[ch])
       /\ IF log.sig \in {"clock", "render"}
          THEN log.frames = log.sigFrames + 1
          ELSE /\ log.frames = log.sigFrames
               /\ shown = log.sigShown
               /\ ~log.full

\* a signal that arrived before the render call of the iteration that
\* completed the fade
C3_Witness ==
    /\ pc = "exited"
    /\ log.sigMid
    /\ CleanLoop
    /\ log.sig = "render"
    /\ log.full
    /\ shown # log.sigShown
    /\ exitCode = 0

\* C4 as stated, for the runs TLC can see: the loop goes round again only
\* while the deadline is not reached, so that with the clock advancing it
\* ends by completion if not by cancellation.
C4_AsStated ==
    (pc = "loop" /\ log.frames > 0)
    => FLt(get_timespan(currenttime, starttime), params.duration)

\* C5 as stated: the exit code is nonzero whenever a usage error, a setuid
\* failure, a clock failure or a driver failure occurred, and after a driver
\* failure it is the driver's status code.
C5_AsStated ==
    pc = "exited"
    => /\ (log.usage \/ log.setuid \/ log.clock \/ log.init \/ log.render)
             => exitCode # 0
       /\ (log.init \/ log.render) => exitCode = log.status

\* C6: once a render call has failed the run is over: the failed frame was
\* not saved (two store_leds calls per rendered frame, none more), no frame
\* was computed or rendered after it, the driver was finalized once, and the
\* exit code is the nonzero status of the failed call.
C6_RenderFailureStops ==
    log.render
    => /\ pc = "exited"
       /\ log.stores = 2 * log.frames
       /\ log.renders = log.frames + 1
       /\ frames = log.renders
       /\ log.finis = 1
       /\ exitCode = log.status
       /\ exitCode # 0
       /\ (log.frames > 0 /\ ~log.save)
             => \A ch \in Chans : file[ch] = FileOf(shown[ch])

\* a render failure in a later frame, whose colours are not the saved ones
C6_Witness ==
    /\ log.render
    /\ log.frames >= 1
    /\ pc = "exited"
    /\ exitCode = 0 - 10
    /\ leds # shown
    /\ file[0] = FileOf(shown[0])

\* C7 as stated: after failed saves with no later success, a run started at
\* exit loads what the most recent successful save wrote (or what was there
\* before the run, if none succeeded).
C7_AsStated ==
    (pc = "exited" /\ log.save)
    => \A ch \in Chans : NextStart(ch) = load_leds(good[ch], count(ch), TRUE)

\* the step of a store_leds call of channel ch
SaveStep(ch, after) ==
    /\ pc' = (IF FGe(progress, FOne) /\ after = "loop" THEN "exited" ELSE after)
    /\ pc' = "exited" => exitCode' = ret
    /\ ret' = ret
    /\ log'.lastSave = "open" => file' = file
    /\ log'.lastSave = "partial"
          => /\ file'[ch].exists
             /\ IsPrefix(file'[ch].data, leds[ch])
             /\ \A i \in 1..count(ch) :
                   load_leds(file'[ch], count(ch), TRUE)[i] =
                      IF i <= Len(file'[ch].data) THEN leds[ch][i] ELSE Zero
    /\ log'.lastSave = "ok" => file'[ch] = FileOf(leds[ch])

\* C7: a save that fails never aborts the animation: the run goes on exactly
\* as after a successful save.  A save that cannot open its file leaves the
\* file as it was, so while no save has failed otherwise the files hold what
\* the most recent successful saves wrote; a save that fails after opening
\* the file (short write, close failure) leaves an initial part of the frame
\* it was saving, which the next run loads padded with zero colours.
C7_FailedSaveGoesOn ==
    /\ [](~log.partial => \A ch \in Chans : file[ch] = good[ch])
    /\ [][/\ (pc = "store0" /\ pc' # pc) => SaveStep(0, "store1")
          /\ (pc = "store1" /\ pc' # pc) => SaveStep(1, "loop")]_vars

\* a fade completed although a save could not open its file, which is left
\* with the older colours
C7_Witness ==
    /\ pc = "exited"
    /\ log.save
    /\ ~log.partial
    /\ log.full
    /\ exitCode = 0
    /\ \E ch \in Chans : /\ file[ch] # FileOf(shown[ch])
                         /\ file[ch] = good[ch]
                         /\ file[ch].exists

\* C8: load_leds never fails and yields exactly count colours: the first
\* min(n, count) colours of the file (n = 0 when it is absent, cannot be
\* opened or is empty) followed by zero colours; colours stored beyond count
\* are ignored.
C8_LoadPadsAndTruncates ==
    pc = "clock0"
    => \A ch \in Chans :
          /\ DOMAIN start[ch] = 1..count(ch)
          /\ \A i \in 1..count(ch) :
                start[ch][i] = IF ch \in log.opened /\ i <= Len(file[ch].data)
                               THEN file[ch].data[i] ELSE Zero

\* a file one colour short of the LED count has been loaded
C8_Witness ==
    /\ pc = "clock0"
    /\ 0 \in log.opened
    /\ Len(file[0].data) = count(0) - 1
    /\ start[0][1] = file[0].data[1]
    /\ start[0][1] # Zero
    /\ start[0][count(0)] = Zero

\* C9 as stated: under --not-brighter an LED whose start colour has
\* brightness 0 keeps the requested colour as its end colour.
C9_AsStated ==
    (log.loaded /\ params.limit_brightness)
    => \A ch \in Chans : \A i \in 1..count(ch) :
          FIsZero(get_brightness(start[ch][i])) => end[ch][i] = params.color

\* C9: under --not-brighter an LED whose start colour has brightness 0 gets
\* the zero colour as its end colour whatever colour is requested, and
\* every frame rendered shows it black.
C9_BlackStaysBlack ==
    (log.loaded /\ params.limit_brightness)
    => \A ch \in Chans : \A i \in 1..count(ch) :
          FIsZero(get_brightness(start[ch][i]))
          => /\ end[ch][i] = Zero
             /\ log.frames > 0 => shown[ch][i] = Zero

\* full white requested under --not-brighter from an all-zero start, faded
\* to the end
C9_Witness ==
    /\ log.loaded
    /\ params.limit_brightness
    /\ params.color = White
    /\ start[0][1] = Zero
    /\ log.full
    /\ shown[0][1] = Zero
    /\ end[0][1] = Zero

\* C10 as stated: the brightness of every colour the program handles lies
\* in [0, 1], and that of 0xFFFFFFFF is 1.
C10_AsStated ==
    LET b == get_brightness(params.color)
    IN /\ FGe(b, FZero(0))
       /\ FGe(FOne, b)
       /\ params.color = White => b = FOne

\* C11: limit_brightness(C, R) is C whenever brightness(R) >= brightness(C);
\* in particular with brightness(C) = 0 nothing is divided and C comes back.
C11_NotBrighterUnchanged ==
    (pc # "led" /\ params.limit_brightness)
    => \A ch \in Chans :
          FGe(get_brightness(start[ch][1]), get_brightness(params.color))
          => end[ch][1] = params.color

\* a colour of positive brightness limited against a brighter reference
C11_Witness ==
    /\ pc = "led_end"
    /\ params.limit_brightness
    /\ params.color = Dim
    /\ start[0][1] = Mid
    /\ FLt(get_brightness(Dim), get_brightness(Mid))
    /\ end[0][1] = Dim

\* C12: when brightness(R) < brightness(C), limit_brightness(C, R) scales
\* every channel of C by brightness(R) / brightness(C) and truncates: the
\* channel is never above the exact quotient and less than one below it or
\* exactly one below it, so it is at most the channel of C, and the
\* brightness of the result is at most brightness(R).
C12_LimitScalesDown ==
    (pc # "led" /\ params.limit_brightness)
    => \A ch \in Chans :
          LET C == params.color
              R == start[ch][1]
              E == end[ch][1]
          IN FLt(get_brightness(R), get_brightness(C))
             => /\ \A i \in Channels :
                      /\ E[i] <= C[i]
                      /\ E[i] * WeightedSum(C) <= C[i] * WeightedSum(R)
                      /\ (E[i] + 1) * WeightedSum(C) >= C[i] * WeightedSum(R)
                /\ ~FLt(get_brightness(R), get_brightness(E))

\* full white limited against a mixed colour: scaled, truncated, not black
C12_Witness ==
    /\ pc = "led_end"
    /\ params.limit_brightness
    /\ params.color = White
    /\ start[0][1] = Mid
    /\ end[0][1] # White
    /\ end[0][1] # Zero
    /\ WeightedSum(end[0][1]) < WeightedSum(Mid)

\* C13: blend_colors(A, B, 0) is A and blend_colors(A, B, 1) is B, in every
\* channel.
C13_BlendEndpoints ==
    pc = "led_blend"
    => \A ch \in Chans :
          /\ FIsZero(progress) => leds[ch][1] = start[ch][1]
          /\ progress = FOne => leds[ch][1] = end[ch][1]

\* a blend with alpha 1 between two different colours
C13_Witness ==
    /\ pc = "led_blend"
    /\ progress = FOne
    /\ start[0][1] = Mid
    /\ end[0][1] = Dim
    /\ leds[0][1] = Dim

\* C16 as stated, for one LED: when the requested colour is the LED's
\* persisted colour, the frame shows exactly that colour, whatever the
\* progress and with or without --not-brighter.
C16_AsStated ==
    pc = "led_blend"
    => \A ch \in Chans :
          start[ch][1] = params.color => leds[ch][1] = params.color

\* C14: with duration 0 (the default) the first iteration has progress 1:
\* the run never starts a second iteration and never sleeps, and when it has
\* exited after that iteration without a failing call, exactly one frame was
\* rendered, it showed the end colour on every LED, it was saved at once,
\* and the exit code is 0.
C14_ZeroDurationJumps ==
    FIsZero(params.duration)
    => /\ frames <= 1
       /\ now = Boot
       /\ (pc = "exited" /\ CleanLoop /\ running # 0) => frames = 1
       /\ (pc = "exited" /\ CleanLoop /\ frames = 1)
          => /\ progress = FOne
             /\ log.frames = 1
             /\ log.stores = 2
             /\ shown = end
             /\ \A ch \in Chans : file[ch] = FileOf(end[ch])
             /\ log.finis = 1
             /\ exitCode = 0

\* a run without --time that replaced different stored colours in one frame
C14_Witness ==
    /\ pc = "exited"
    /\ FIsZero(params.duration)
    /\ CleanLoop
    /\ running # 0
    /\ log.frames = 1
    /\ params.color = White
    /\ start[0][1] # White
    /\ shown[0][1] = White
    /\ file[0] = FileOf(shown[0])

\* C15 as stated: a command line without a colour argument is a usage
\* error: the run goes no further than parse_cmdline, reports the usage and
\* exits nonzero without loading, initialising, rendering or saving.
C15_AsStated ==
    (pc # "parse" /\ ~params.color_specified)
    => /\ pc = "exited"
       /\ log.usage
       /\ exitCode # 0
       /\ ~log.loaded
       /\ ~log.inited
       /\ log.renders = 0
       /\ log.stores = 0

\* the run left the loop because the loop test found the flag cleared
LeftByFlag ==
    /\ pc = "exited"
    /\ log.inited
    /\ ~log.clock
    /\ ~log.render
    /\ ~log.full

\* C17 as stated: a run that leaves the loop because the flag is cleared
\* saves every channel once more before the driver is finalized.
C17_AsStated ==
    LeftByFlag => log.stores = 2 * log.frames + 2

\* C17: a run that leaves the loop because the loop test finds the flag
\* cleared does no save after the loop: the only saves are the two of each
\* rendered frame, so the files hold what those left (the last rendered
\* frame if no save failed, the files as found if no frame was rendered);
\* the driver is finalized once and the exit code is 0.
C17_NoSaveAfterLoop ==
    LeftByFlag
    => /\ running = 0
       /\ log.stores = 2 * log.frames
       /\ log.finis = 1
       /\ exitCode = 0
       /\ (log.frames > 0 /\ ~log.save)
             => \A ch \in Chans : file[ch] = FileOf(shown[ch])
       /\ log.frames = 0 => file = good

\* a run cancelled during its sleep whose last save had failed: the file is
\* not saved again
C17_Witness ==
    /\ LeftByFlag
    /\ log.sig = "loop"
    /\ log.frames >= 1
    /\ log.lastSave = "open"
    /\ file[1] # FileOf(shown[1])

\* C18 as stated: the progress of every frame lies in [0, 1].
C18_AsStated ==
    pc = "render" => FGe(progress, FZero(0)) /\ FGe(FOne, progress)

\* C19: under --not-brighter, with progress in [0, 1], the colour blended
\* for an LED in a frame is never brighter than the LED's start colour.
C19_FrameNotBrighter ==
    (pc = "led_blend" /\ params.limit_brightness)
    => \A ch \in Chans :
          ~FLt(get_brightness(start[ch][1]), get_brightness(leds[ch][1]))

\* a frame part of the way from a mixed colour to limited full white
C19_Witness ==
    /\ pc = "led_blend"
    /\ params.limit_brightness
    /\ params.color = White
    /\ start[0][1] = Mid
    /\ ~FIsZero(progress)
    /\ progress # FOne
    /\ leds[0][1] # Mid
    /\ leds[0][1] # end[0][1]

\* the signal found the program before the first test of the flag
SigBeforeLoop ==
    \/ log.sig \in {"setuid", "load", "clock0", "init"}
    \/ log.sig = "loop" /\ log.sigFrames = 0

\* C20: the handler only clears the flag, and the flag is tested once per
\* iteration at the top of the loop: once it is cleared, at most the
\* iteration in progress still renders and saves its frame, and the driver
\* is finalized once; cleared before the first test, no frame is rendered
\* and the files are not written.
C20_CancelIsCooperative ==
    /\ [](log.sig # "none"
          => /\ frames <= log.sigFrames + 1
             /\ log.renders <= log.sigFrames + 1
             /\ log.stores <= 2 * (log.sigFrames + 1)
             /\ (pc = "exited" /\ log.inited) => log.finis = 1
             /\ SigBeforeLoop => /\ log.renders = 0
                                 /\ log.stores = 0
                                 /\ file = good)
    /\ [][running' # running
          => /\ running' = 0
             /\ UNCHANGED <<build, pc, argc, params, handlers, file, start,
                            end, leds, now, frames, starttime, currenttime,
                            progress, ret, exitCode, shown, good, faults>>]_vars

\* a signal after the flag test of a later iteration, whose frame was still
\* rendered and saved before the run ended
C20_Witness ==
    /\ pc = "exited"
    /\ log.sig = "clock"
    /\ log.sigFrames >= 1
    /\ log.frames = log.sigFrames + 1
    /\ log.stores = 2 * log.frames
    /\ log.finis = 1


====
